---- MODULE Spec2Model ----
(***************************************************************************)
(* Model of the tt-online backend (TT_Backend/src/server.rs and            *)
(* TT_Backend/src/server/{networking,messages}.rs).                        *)
(*                                                                         *)
(* main_task is the single consumer of the mpsc channel; it owns the       *)
(* client registry `clients`, the host slot `host` and the last state      *)
(* `state`.  Listeners and readers are the producers of the channel.       *)
(*                                                                         *)
(* Addresses are small integers; a SocketAddr identifies one accepted      *)
(* connection and is used for one connection only.  An Option<T> is a      *)
(* sequence of length 0 (None) or 1 (Some).  A wire string is the record   *)
(* of its JSON "type" and "content" fields; the literal "DUMMY" is no      *)
(* JSON and has an empty type.                                             *)
(***************************************************************************)
EXTENDS Integers, Sequences, FiniteSets, TLC

\* ------------------------------------------------------------------ bounds
NumHosts   == 2      \* host connections that may be accepted
NumClients == 2      \* client connections that may be accepted
MaxEvents  == 5      \* events the listeners and readers post altogether
MaxQueue   == 2      \* events waiting in the channel (model bound)
MaxReads   == 3      \* reads the login loop and the readers of networking.rs make altogether

\* ------------------------------------------------------- program constants
CHANNEL_SIZE == 16

DISCONNECT_REASON_CLI_CLOSED_GRACEFULLY == "Connection closed gracefully by client"
DISCONNECT_REASON_CLI_CLOSED_FORCEFULLY == "Connection closed forcefully by client"
DISCONNECT_REASON_HOST_CLOSED_GRACEFULLY == "Connection closed gracefully by host"
DISCONNECT_REASON_HOST_CLOSED_FORCEFULLY == "Connection closed forcefully by host"
DISCONNECT_REASON_HOST_OTHER == "Another host connected"
DISCONNECT_REASON_VIOLATION == "Protocol violation"
DISCONNECT_REASON_SEND_FAILED == "Sending failed"

HostAddrs   == 1..NumHosts
ClientAddrs == 11..(10 + NumClients)
Contents    == {"x", "y"}

\* --------------------------------------------------------------- messages
Text(t, c) == [type |-> t, content |-> c]
NoText     == Text("", "")
DUMMY      == Text("", "DUMMY")

\* tungstenite Message: a text frame or another (binary) frame
WsText(t) == [is_text |-> TRUE, text |-> t]
WsBinary  == [is_text |-> FALSE, text |-> NoText]
to_string(msg) == msg.text

\* frames a client peer may send on its websocket
ClientFrames == {WsText(Text("Input", "x")), WsText(Text("ClientLogin", "x")), WsBinary}
\* length-prefixed JSON frames a host peer may send
HostFrames == {Text("ChangeState", c) : c \in Contents} \cup {Text("Update", "x")}

\* enum InternalMessage; `msg` is the tungstenite Message of ClientInput and
\* the JSON string of HostUpdate/HostChangeState
InternalMessage(t, a, m) == [type |-> t, address |-> a, msg |-> m]
ClientConnected(a)    == InternalMessage("ClientConnected", a, WsBinary)
ClientClosed(a)       == InternalMessage("ClientClosed", a, WsBinary)
HostConnected(a)      == InternalMessage("HostConnected", a, WsBinary)
HostClosed(a)         == InternalMessage("HostClosed", a, WsBinary)
ClientInput(a, m)     == InternalMessage("ClientInput", a, m)
HostUpdate(a, s)      == InternalMessage("HostUpdate", a, WsText(s))
HostChangeState(a, s) == InternalMessage("HostChangeState", a, WsText(s))

\* encode_backend_msg(BackendMessage::Disconnect{reason})
encode_backend_msg_Disconnect(r) == [type |-> "Disconnecting", reason |-> r]

VARIABLES
    channel,       \* mpsc::channel(CHANNEL_SIZE): events posted, not yet received
    clients,       \* keys of the HashMap `clients` of main_task
    state,         \* Option<String> `state` of main_task
    host,          \* Option<(SocketAddr, OwnedWriteHalf)> `host` of main_task (the address)
    clientWrite,   \* per client: its write half ("none", "open", "closed")
    hostWrite,     \* per host: its write half ("none", "open", "closed")
    clientLink,    \* per client: the peer's transport ("idle", "up", "down"; "silent":
                   \* connected, its upgrade request not sent yet)
    hostLink,      \* per host: the peer's transport ("idle", "up", "down")
    clientReader,  \* per client: its reader task ("none", "running", "done")
    hostReader,    \* per host: its reader task ("none", "running", "done")
    clientSent,    \* per client: the texts written to its websocket, in order
    hostSent,      \* per host: the texts written to its socket, in order
    posted,        \* events posted to the channel so far
    log,           \* the event main_task handled last and the branch it logged
    lastApplied,   \* history: payload of the last HostChangeState accepted
    lastHC,        \* history: address of the last HostConnected handled
    lastHCok,      \* history: address of the last HostConnected whose initial send succeeded
    snapshot,      \* history, per client: lastApplied when its ClientConnected was handled
    loginRead,     \* history: the clients from which a ClientLogin frame was read
    stopped,       \* the listener and reader tasks were stopped and their Senders dropped
    netListen,     \* networking.rs: the client websockets::listen runs client_connecting for
    netPhase,      \* networking.rs, per connection: "idle", "connecting", "reading",
                   \* "closed" (by client_connecting), "dropped", "returned" (its reader)
    netClosed,     \* networking.rs, per client: the reason client_connecting closed it with
    netPosted,     \* networking.rs: the events sent on the channel, in order
    netReads,      \* networking.rs: reads made so far
    netLast        \* networking.rs: the connection that read last and what the read returned

netVars == <<netListen, netPhase, netClosed, netPosted, netReads, netLast>>

\* the variables of server.rs
mainVars == <<channel, clients, state, host, clientWrite, hostWrite, clientLink, hostLink,
              clientReader, hostReader, clientSent, hostSent, posted, log,
              lastApplied, lastHC, lastHCok, snapshot, loginRead, stopped>>

vars == <<mainVars, netVars>>

actorVars == <<clients, state, host, clientWrite, hostWrite, clientReader, hostReader,
               clientSent, hostSent>>
histVars  == <<lastApplied, lastHC, lastHCok, snapshot>>

\* the line main_task logged last: the event's kind and address, the branch taken
Logged(e, o) == [type |-> e.type, address |-> e.address, outcome |-> o]
NoEvent == InternalMessage("", 0, WsBinary)

\* main_task, lines 56-58: the state of the actor before its first event
Init ==
    /\ channel = <<>>
    /\ clients = {}
    /\ state = <<DUMMY>>
    /\ host = <<>>
    /\ clientWrite = [a \in ClientAddrs |-> "none"]
    /\ hostWrite = [a \in HostAddrs |-> "none"]
    /\ clientLink = [a \in ClientAddrs |-> "idle"]
    /\ hostLink = [a \in HostAddrs |-> "idle"]
    /\ clientReader = [a \in ClientAddrs |-> "none"]
    /\ hostReader = [a \in HostAddrs |-> "none"]
    /\ clientSent = [a \in ClientAddrs |-> <<>>]
    /\ hostSent = [a \in HostAddrs |-> <<>>]
    /\ posted = 0
    /\ log = Logged(NoEvent, "")
    /\ lastApplied = <<>>
    /\ lastHC = <<>>
    /\ lastHCok = <<>>
    /\ snapshot = [a \in ClientAddrs |-> <<>>]
    /\ loginRead = {}
    /\ stopped = FALSE
    /\ netListen = <<>>
    /\ netPhase = [a \in ClientAddrs \cup HostAddrs |-> "idle"]
    /\ netClosed = [a \in ClientAddrs |-> <<>>]
    /\ netPosted = <<>>
    /\ netReads = 0
    /\ netLast = [address |-> 0, r |-> [res |-> "Err"]]

\* channel.send(..).await completes only while the channel has room
HasRoom == Len(channel) < CHANNEL_SIZE /\ Len(channel) < MaxQueue


\* ------------------------------------------------------------ environment
\* A peer's transport may end at any moment.  The backend notices it only
\* when a write fails or a read ends, so the end is chosen at the write or
\* read that observes it: Breaks(link, S) are the links after some of the
\* live transports of S have ended.
Breaks(link, S) ==
    {l \in [DOMAIN link -> {"idle", "silent", "up", "down"}] :
        \A a \in DOMAIN link :
            \/ l[a] = link[a]
            \/ a \in S /\ link[a] = "up" /\ l[a] = "down"}

\* ------------------------------------------------- listeners and readers
\* client_listen: accept a connection, post ClientConnected
client_listen(a) ==
    /\ ~stopped
    /\ clientLink[a] = "idle"
    /\ HasRoom
    /\ clientLink' = [clientLink EXCEPT ![a] = "up"]
    /\ channel' = Append(channel, ClientConnected(a))
    /\ posted < MaxEvents
    /\ posted' = posted + 1
    /\ UNCHANGED <<netVars, stopped, loginRead, actorVars, hostLink, log, histVars>>

\* client_listen when the peer only opens the TCP connection: accept()
\* returns all the same and ClientConnected is posted
client_listen_silent(a) ==
    /\ ~stopped
    /\ clientLink[a] = "idle"
    /\ HasRoom
    /\ clientLink' = [clientLink EXCEPT ![a] = "silent"]
    /\ channel' = Append(channel, ClientConnected(a))
    /\ posted < MaxEvents
    /\ posted' = posted + 1
    /\ UNCHANGED <<netVars, stopped, loginRead, actorVars, hostLink, log, histVars>>

\* the peer of a silent connection sends its upgrade request after all, or
\* ends the connection
upgrade_request(a) ==
    /\ clientLink[a] = "silent"
    /\ \E l \in {"up", "down"} : clientLink' = [clientLink EXCEPT ![a] = l]
    /\ UNCHANGED <<netVars, stopped, loginRead, actorVars, channel, hostLink, posted, log,
                   histVars>>

\* host_listen: accept a connection, post HostConnected
host_listen(a) ==
    /\ ~stopped
    /\ hostLink[a] = "idle"
    /\ HasRoom
    /\ hostLink' = [hostLink EXCEPT ![a] = "up"]
    /\ channel' = Append(channel, HostConnected(a))
    /\ posted < MaxEvents
    /\ posted' = posted + 1
    /\ UNCHANGED <<netVars, stopped, loginRead, actorVars, clientLink, log, histVars>>

\* websocket_listen: every message read is posted as ClientInput; None and
\* Err of reader.next() only `continue`, so an ended stream produces nothing
websocket_listen(a) ==
    /\ ~stopped
    /\ clientReader[a] = "running"
    /\ clientLink[a] = "up"
    /\ posted < MaxEvents
    /\ HasRoom
    /\ \E m \in ClientFrames :
          /\ channel' = Append(channel, ClientInput(a, m))
          /\ loginRead' = IF m.is_text /\ m.text.type = "ClientLogin"
                          THEN loginRead \cup {a} ELSE loginRead
    /\ posted' = posted + 1
    /\ UNCHANGED <<netVars, stopped, actorVars, clientLink, hostLink, log, histVars>>

\* client_socket_reader (networking.rs), its closing branches: the stream
\* ended (None), or the peer sent a second ClientLogin or a Disconnect; each
\* posts one close event for the address and returns
client_socket_reader(a) ==
    /\ ~stopped
    /\ clientReader[a] = "running"
    /\ HasRoom
    /\ posted < MaxEvents
    /\ \/ /\ clientLink[a] # "idle"
          /\ clientLink' = [clientLink EXCEPT ![a] = "down"]
       \/ /\ clientLink[a] = "up"
          /\ clientLink' = clientLink
    /\ posted' = posted + 1
    /\ channel' = Append(channel, ClientClosed(a))
    /\ clientReader' = [clientReader EXCEPT ![a] = "done"]
    /\ UNCHANGED <<netVars, stopped, loginRead, clients, state, host, clientWrite, hostWrite,
                   hostReader, clientSent, hostSent, hostLink, log, histVars>>

\* variant: the event of the frame is put in front of the waiting events
tcp_listen_frame_front(a) ==
    /\ ~stopped
    /\ hostReader[a] = "running"
    /\ hostLink[a] = "up"
    /\ posted < MaxEvents
    /\ \E f \in HostFrames :
         \/ /\ f.type = "Update"
            /\ HasRoom
            /\ channel' = <<HostUpdate(a, f)>> \o channel
         \/ /\ f.type = "ChangeState"
            /\ HasRoom
            /\ channel' = <<HostChangeState(a, f)>> \o channel
    /\ posted' = posted + 1
    /\ UNCHANGED <<netVars, stopped, loginRead, actorVars, clientLink, hostLink, log, histVars>>

\* tcp_listen, one frame: "Update" and "ChangeState" are posted; a frame of
\* any other type, or one that is no JSON, is logged and dropped (no step)
tcp_listen_frame(a) ==
    /\ ~stopped
    /\ hostReader[a] = "running"
    /\ hostLink[a] = "up"
    /\ posted < MaxEvents
    /\ \E f \in HostFrames :
         \/ /\ f.type = "Update"
            /\ HasRoom
            /\ channel' = Append(channel, HostUpdate(a, f))
         \/ /\ f.type = "ChangeState"
            /\ HasRoom
            /\ channel' = Append(channel, HostChangeState(a, f))
    /\ posted' = posted + 1
    /\ UNCHANGED <<netVars, stopped, loginRead, actorVars, clientLink, hostLink, log, histVars>>

\* tcp_listen, read error: ConnectionReset posts HostClosed and breaks; any
\* other error kind only `continue`s (no step of the model)
tcp_listen_reset(a) ==
    /\ ~stopped
    /\ hostReader[a] = "running"
    /\ hostLink[a] # "idle"
    /\ HasRoom
    /\ channel' = Append(channel, HostClosed(a))
    /\ hostLink' = [hostLink EXCEPT ![a] = "down"]
    /\ hostReader' = [hostReader EXCEPT ![a] = "done"]
    /\ posted < MaxEvents
    /\ posted' = posted + 1
    /\ UNCHANGED <<netVars, stopped, loginRead, clients, state, host, clientWrite, hostWrite,
                   clientReader, clientSent, hostSent, clientLink, log, histVars>>

\* ------------------------------------------------------ actor: helpers
\* write_to_socket / SinkExt::send: Ok, and the text is written, exactly
\* while the peer's transport is up
SendOk(link, a) == link[a] = "up"
write_to_socket(link, sent, a, msg) ==
    IF SendOk(link, a) THEN [sent EXCEPT ![a] = Append(@, msg)] ELSE sent

\* the orders in which a HashMap with key set S may be iterated
IterationOrders(S) ==
    {o \in [1..Cardinality(S) -> S] : \A i, j \in 1..Cardinality(S) : o[i] = o[j] => i = j}

\* variant: the first failed send ends the loop
RECURSIVE write_to_all_clients_abort(_, _, _, _)
write_to_all_clients_abort(order, link, sent, msg) ==
    IF order = <<>> THEN sent
    ELSE IF ~SendOk(link, Head(order)) THEN sent
    ELSE write_to_all_clients_abort(Tail(order), link,
                                    write_to_socket(link, sent, Head(order), msg), msg)

\* write_to_all_clients: send to every entry, log a failed send and go on
RECURSIVE write_to_all_clients(_, _, _, _)
write_to_all_clients(order, link, sent, msg) ==
    IF order = <<>> THEN sent
    ELSE write_to_all_clients(Tail(order), link,
                              write_to_socket(link, sent, Head(order), msg), msg)

\* ------------------------------------------------------ actor: handlers
\* variant: the new client is registered without being sent the state
client_connected_no_state(st, regs, sent, wr, rd, a, hsOk, sendOk) ==
    IF ~hsOk THEN
        [clients |-> regs, clientSent |-> sent, clientWrite |-> [wr EXCEPT ![a] = "closed"],
         clientReader |-> rd, outcome |-> "handshake_failed"]
    ELSE
        [clients |-> regs \cup {a}, clientSent |-> sent,
         clientWrite |-> [wr EXCEPT ![a] = "open"],
         clientReader |-> [rd EXCEPT ![a] = "running"], outcome |-> "registered"]

\* variant: a client whose initial send failed is registered all the same
client_connected_register_on_fail(st, regs, sent, wr, rd, a, hsOk, sendOk) ==
    IF ~hsOk THEN
        [clients |-> regs, clientSent |-> sent, clientWrite |-> [wr EXCEPT ![a] = "closed"],
         clientReader |-> rd, outcome |-> "handshake_failed"]
    ELSE
        [clients |-> regs \cup {a},
         clientSent |-> IF st # <<>> /\ sendOk THEN [sent EXCEPT ![a] = Append(@, st[1])]
                        ELSE sent,
         clientWrite |-> [wr EXCEPT ![a] = "open"],
         clientReader |-> [rd EXCEPT ![a] = "running"],
         outcome |-> IF st # <<>> /\ ~sendOk THEN "initial_send_failed" ELSE "registered"]

\* handle_client_connected: upgrade (hsOk), send the state if there is one
\* (sendOk), insert the write half and spawn websocket_listen.  The upgrade,
\* accept_async(stream).await, returns once the peer's request was read or
\* the transport ended.
client_connected(st, regs, sent, wr, rd, a, hsOk, sendOk) ==
    IF ~hsOk THEN
        [clients |-> regs, clientSent |-> sent, clientWrite |-> [wr EXCEPT ![a] = "closed"],
         clientReader |-> rd, outcome |-> "handshake_failed"]
    ELSE IF st # <<>> /\ ~sendOk THEN
        [clients |-> regs, clientSent |-> sent, clientWrite |-> [wr EXCEPT ![a] = "closed"],
         clientReader |-> rd, outcome |-> "initial_send_failed"]
    ELSE
        [clients |-> regs \cup {a},
         clientSent |-> IF st # <<>> THEN [sent EXCEPT ![a] = Append(@, st[1])] ELSE sent,
         clientWrite |-> [wr EXCEPT ![a] = "open"],
         clientReader |-> [rd EXCEPT ![a] = "running"],
         outcome |-> "registered"]

handle_client_connected ==
    /\ channel # <<>>
    /\ Head(channel).type = "ClientConnected"
    /\ clientLink[Head(channel).address] # "silent"
    /\ LET e == Head(channel)
           a == e.address
       IN \E hsOk, sendOk \in BOOLEAN :
            /\ sendOk => hsOk
            /\ LET r == client_connected(state, clients, clientSent, clientWrite,
                                         clientReader, a, hsOk, sendOk)
               IN /\ clients' = r.clients
                  /\ clientSent' = r.clientSent
                  /\ clientWrite' = r.clientWrite
                  /\ clientReader' = r.clientReader
                  /\ log' = Logged(e, r.outcome)
                  /\ clientLink' = IF r.outcome = "registered" THEN clientLink
                                   ELSE [clientLink EXCEPT ![a] = "down"]
            /\ snapshot' = [snapshot EXCEPT ![a] = lastApplied]
    /\ channel' = Tail(channel)
    /\ UNCHANGED <<netVars, stopped, loginRead, state, host, hostWrite, hostReader, hostSent,
                   hostLink, posted, lastApplied, lastHC, lastHCok>>

\* variant: the write half of an address that is not in the map is closed too
client_closed_any(regs, wr, a) ==
    [clients |-> regs \ {a}, clientWrite |-> [wr EXCEPT ![a] = "closed"],
     outcome |-> IF a \in regs THEN "closed" ELSE "not_in_list"]

\* handle_client_closed: remove the entry and close its write half; an
\* address that is not in the map is only logged
client_closed(regs, wr, a) ==
    IF a \notin regs THEN
        [clients |-> regs, clientWrite |-> wr, outcome |-> "not_in_list"]
    ELSE
        [clients |-> regs \ {a}, clientWrite |-> [wr EXCEPT ![a] = "closed"],
         outcome |-> "closed"]

handle_client_closed ==
    /\ channel # <<>>
    /\ Head(channel).type = "ClientClosed"
    /\ LET e == Head(channel)
           r == client_closed(clients, clientWrite, e.address)
       IN /\ clients' = r.clients
          /\ clientWrite' = r.clientWrite
          /\ log' = Logged(e, r.outcome)
    /\ channel' = Tail(channel)
    /\ UNCHANGED <<netVars, stopped, loginRead, state, host, hostWrite, clientReader,
                   hostReader, clientSent, hostSent, clientLink, hostLink, posted, histVars>>

\* variant: a host that occupies the slot is kept, the new one is refused
host_connected_keep_old(st, h, wr, rd, sent, link, a) ==
    IF (st # <<>> /\ ~SendOk(link, a)) \/ h # <<>> THEN
        [host |-> h, hostWrite |-> [wr EXCEPT ![a] = "closed"], hostReader |-> rd,
         hostSent |-> sent, outcome |-> "initial_send_failed"]
    ELSE
        [host |-> <<a>>, hostWrite |-> [wr EXCEPT ![a] = "open"],
         hostReader |-> [rd EXCEPT ![a] = "running"],
         hostSent |-> IF st # <<>> THEN write_to_socket(link, sent, a, st[1]) ELSE sent,
         outcome |-> "installed"]

\* variant: a failed initial send to the new host empties the slot as well
host_connected_fail_drops_old(st, h, wr, rd, sent, link, a) ==
    IF st # <<>> /\ ~SendOk(link, a) THEN
        [host |-> <<>>,
         hostWrite |-> [x \in DOMAIN wr |->
                          IF x = a \/ (h # <<>> /\ x = h[1]) THEN "closed" ELSE wr[x]],
         hostReader |-> rd, hostSent |-> sent, outcome |-> "initial_send_failed"]
    ELSE
        [host |-> <<a>>,
         hostWrite |-> [x \in DOMAIN wr |->
                          IF x = a THEN "open"
                          ELSE IF h # <<>> /\ x = h[1] THEN "closed" ELSE wr[x]],
         hostReader |-> [rd EXCEPT ![a] = "running"],
         hostSent |-> IF st # <<>> THEN write_to_socket(link, sent, a, st[1]) ELSE sent,
         outcome |-> IF h # <<>> THEN "replaced" ELSE "installed"]

\* handle_host_connected: send the state to the new host (a failed send
\* shuts the new connection down and returns), shut down and drop the old
\* host if there is one, spawn tcp_listen, install the new host
host_connected(st, h, wr, rd, sent, link, a) ==
    IF st # <<>> /\ ~SendOk(link, a) THEN
        [host |-> h, hostWrite |-> [wr EXCEPT ![a] = "closed"], hostReader |-> rd,
         hostSent |-> sent, outcome |-> "initial_send_failed"]
    ELSE
        [host |-> <<a>>,
         hostWrite |-> [x \in DOMAIN wr |->
                          IF x = a THEN "open"
                          ELSE IF h # <<>> /\ x = h[1] THEN "closed" ELSE wr[x]],
         hostReader |-> [rd EXCEPT ![a] = "running"],
         hostSent |-> IF st # <<>> THEN write_to_socket(link, sent, a, st[1]) ELSE sent,
         outcome |-> IF h # <<>> THEN "replaced" ELSE "installed"]

handle_host_connected ==
    /\ channel # <<>>
    /\ Head(channel).type = "HostConnected"
    /\ LET e == Head(channel)
           a == e.address
       IN \E link \in Breaks(hostLink, {a}) :
            LET r == host_connected(state, host, hostWrite, hostReader, hostSent, link, a)
            IN /\ host' = r.host
               /\ hostWrite' = r.hostWrite
               /\ hostReader' = r.hostReader
               /\ hostSent' = r.hostSent
               /\ hostLink' = link
               /\ log' = Logged(e, r.outcome)
               /\ lastHC' = <<a>>
               /\ lastHCok' = IF state = <<>> \/ SendOk(link, a) THEN <<a>> ELSE lastHCok
    /\ channel' = Tail(channel)
    /\ UNCHANGED <<netVars, stopped, loginRead, clients, state, clientWrite, clientReader,
                   clientSent, clientLink, posted, lastApplied, snapshot>>

\* variant: any close event shuts the current host down
host_closed_any(h, wr, a) ==
    IF h # <<>> THEN
        [host |-> <<>>, hostWrite |-> [wr EXCEPT ![h[1]] = "closed"], outcome |-> "is_current"]
    ELSE
        [host |-> h, hostWrite |-> wr, outcome |-> "ignored"]

\* variant: the current host is shut down but stays in the slot
host_closed_keep_slot(h, wr, a) ==
    IF h # <<>> /\ a = h[1] THEN
        [host |-> h, hostWrite |-> [wr EXCEPT ![a] = "closed"], outcome |-> "is_current"]
    ELSE
        [host |-> h, hostWrite |-> wr, outcome |-> "ignored"]

\* variant: every close event empties the slot
host_closed_clear_slot(h, wr, a) ==
    IF h # <<>> /\ a = h[1] THEN
        [host |-> <<>>, hostWrite |-> [wr EXCEPT ![a] = "closed"], outcome |-> "is_current"]
    ELSE
        [host |-> <<>>, hostWrite |-> wr, outcome |-> "ignored"]

\* handle_host_closed: only the current host's address shuts the slot down
host_closed(h, wr, a) ==
    IF h # <<>> /\ a = h[1] THEN
        [host |-> <<>>, hostWrite |-> [wr EXCEPT ![a] = "closed"], outcome |-> "is_current"]
    ELSE
        [host |-> h, hostWrite |-> wr, outcome |-> "ignored"]

\* variant: a close event that is not the current host's is put back
handle_host_closed_requeue ==
    /\ channel # <<>>
    /\ Head(channel).type = "HostClosed"
    /\ LET e == Head(channel)
           r == host_closed(host, hostWrite, e.address)
       IN /\ host' = r.host
          /\ hostWrite' = r.hostWrite
          /\ log' = Logged(e, r.outcome)
          /\ channel' = IF r.outcome = "ignored" THEN Append(Tail(channel), e)
                        ELSE Tail(channel)
    /\ UNCHANGED <<netVars, stopped, loginRead, clients, state, clientWrite, clientReader,
                   hostReader, clientSent, hostSent, clientLink, hostLink, posted, histVars>>

handle_host_closed ==
    /\ channel # <<>>
    /\ Head(channel).type = "HostClosed"
    /\ LET e == Head(channel)
           r == host_closed(host, hostWrite, e.address)
       IN /\ host' = r.host
          /\ hostWrite' = r.hostWrite
          /\ log' = Logged(e, r.outcome)
    /\ channel' = Tail(channel)
    /\ UNCHANGED <<netVars, stopped, loginRead, clients, state, clientWrite, clientReader,
                   hostReader, clientSent, hostSent, clientLink, hostLink, posted, histVars>>

\* variant: the text of an address that is not in the map is forwarded too
client_input_any(h, regs, sent, link, a, msg) ==
    IF ~msg.is_text THEN [hostSent |-> sent, outcome |-> "no_text"]
    ELSE IF h = <<>> THEN [hostSent |-> sent, outcome |-> "no_host"]
    ELSE [hostSent |-> write_to_socket(link, sent, h[1], to_string(msg)),
          outcome |-> IF SendOk(link, h[1]) THEN "forwarded" ELSE "send_failed"]

\* handle_client_input: the text of a registered client is written to the
\* host as it came; a failed write is only logged
client_input(h, regs, sent, link, a, msg) ==
    IF a \notin regs THEN [hostSent |-> sent, outcome |-> "not_in_list"]
    ELSE IF ~msg.is_text THEN [hostSent |-> sent, outcome |-> "no_text"]
    ELSE IF h = <<>> THEN [hostSent |-> sent, outcome |-> "no_host"]
    ELSE [hostSent |-> write_to_socket(link, sent, h[1], to_string(msg)),
          outcome |-> IF SendOk(link, h[1]) THEN "forwarded" ELSE "send_failed"]

\* variant: a failed forward posts a close event for the host
handle_client_input_emits ==
    /\ channel # <<>>
    /\ Head(channel).type = "ClientInput"
    /\ LET e == Head(channel)
       IN \E link \in Breaks(hostLink, {host[i] : i \in DOMAIN host}) :
            LET r == client_input(host, clients, hostSent, link, e.address, e.msg)
            IN /\ r.outcome \in {"forwarded", "send_failed"} \/ link = hostLink
               /\ hostSent' = r.hostSent
               /\ hostLink' = link
               /\ log' = Logged(e, r.outcome)
               /\ channel' = IF r.outcome = "send_failed"
                             THEN Append(Tail(channel), HostClosed(host[1]))
                             ELSE Tail(channel)
    /\ UNCHANGED <<netVars, stopped, loginRead, clients, state, host, clientWrite, hostWrite,
                   clientReader, hostReader, clientSent, clientLink, posted, histVars>>

handle_client_input ==
    /\ channel # <<>>
    /\ Head(channel).type = "ClientInput"
    /\ LET e == Head(channel)
       IN \E link \in Breaks(hostLink, {host[i] : i \in DOMAIN host}) :
            LET r == client_input(host, clients, hostSent, link, e.address, e.msg)
            IN /\ r.outcome \in {"forwarded", "send_failed"} \/ link = hostLink
               /\ hostSent' = r.hostSent
               /\ hostLink' = link
               /\ log' = Logged(e, r.outcome)
    /\ channel' = Tail(channel)
    /\ UNCHANGED <<netVars, stopped, loginRead, clients, state, host, clientWrite, hostWrite,
                   clientReader, hostReader, clientSent, clientLink, posted, histVars>>

\* variant: any address passes while a host is connected
IsCurrentHost_any(h, a) == h # <<>>

\* the guard of handle_host_update and handle_host_change_state
IsCurrentHost(h, a) == ~(h = <<>> \/ h[1] # a)

\* variant: only the first entry of the map is sent the update
host_update_first_only(h, regs, sent, link, order, a, msg) ==
    IF ~IsCurrentHost(h, a) THEN [clientSent |-> sent, outcome |-> "not_current"]
    ELSE [clientSent |-> IF order = <<>> THEN sent
                         ELSE write_to_socket(link, sent, Head(order), msg),
          outcome |-> "broadcast"]

\* handle_host_update: broadcast the update of the current host
host_update(h, regs, sent, link, order, a, msg) ==
    IF ~IsCurrentHost(h, a) THEN [clientSent |-> sent, outcome |-> "not_current"]
    ELSE [clientSent |-> write_to_all_clients(order, link, sent, msg),
          outcome |-> "broadcast"]

handle_host_update ==
    /\ channel # <<>>
    /\ Head(channel).type = "HostUpdate"
    /\ LET e == Head(channel)
       IN \E order \in IterationOrders(clients), link \in Breaks(clientLink, clients) :
            LET r == host_update(host, clients, clientSent, link, order,
                                 e.address, to_string(e.msg))
            IN /\ r.outcome = "broadcast" \/ link = clientLink
               /\ clientSent' = r.clientSent
               /\ clientLink' = link
               /\ log' = Logged(e, r.outcome)
    /\ channel' = Tail(channel)
    /\ UNCHANGED <<netVars, stopped, loginRead, clients, state, host, clientWrite, hostWrite,
                   clientReader, hostReader, hostSent, hostLink, posted, histVars>>

\* variant: the state is stored only while none is kept
host_change_state_first(h, st, regs, sent, link, order, a, msg) ==
    IF ~IsCurrentHost(h, a) THEN
        [state |-> st, clientSent |-> sent, outcome |-> "not_current"]
    ELSE
        [state |-> IF st = <<>> THEN <<msg>> ELSE st,
         clientSent |-> write_to_all_clients(order, link, sent, msg),
         outcome |-> "broadcast"]

\* handle_host_change_state: store the state of the current host, broadcast it
host_change_state(h, st, regs, sent, link, order, a, msg) ==
    IF ~IsCurrentHost(h, a) THEN
        [state |-> st, clientSent |-> sent, outcome |-> "not_current"]
    ELSE
        [state |-> <<msg>>, clientSent |-> write_to_all_clients(order, link, sent, msg),
         outcome |-> "broadcast"]

handle_host_change_state ==
    /\ channel # <<>>
    /\ Head(channel).type = "HostChangeState"
    /\ LET e == Head(channel)
       IN /\ \E order \in IterationOrders(clients), link \in Breaks(clientLink, clients) :
               LET r == host_change_state(host, state, clients, clientSent, link,
                                          order, e.address, to_string(e.msg))
               IN /\ r.outcome = "broadcast" \/ link = clientLink
                  /\ state' = r.state
                  /\ clientSent' = r.clientSent
                  /\ clientLink' = link
                  /\ log' = Logged(e, r.outcome)
          /\ lastApplied' = IF host # <<>> /\ host[1] = e.address
                            THEN <<to_string(e.msg)>> ELSE lastApplied
    /\ channel' = Tail(channel)
    /\ UNCHANGED <<netVars, stopped, loginRead, clients, host, clientWrite, hostWrite, clientReader,
                   hostReader, hostSent, hostLink, posted, lastHC, lastHCok, snapshot>>

\* main_task: receive the next event and handle it to completion
main_task ==
    \/ handle_client_connected
    \/ handle_client_closed
    \/ handle_host_connected
    \/ handle_host_closed
    \/ handle_client_input
    \/ handle_host_update
    \/ handle_host_change_state

Next ==
    \/ main_task
    \/ \E a \in ClientAddrs : client_listen(a)
    \/ \E a \in HostAddrs : host_listen(a)
    \/ \E a \in ClientAddrs : websocket_listen(a)
    \/ \E a \in ClientAddrs : client_socket_reader(a)
    \/ \E a \in HostAddrs : tcp_listen_frame(a)
    \/ \E a \in HostAddrs : tcp_listen_reset(a)

Spec == Init /\ [][Next]_vars

TypeOK ==
    /\ Len(channel) <= MaxQueue
    /\ clients \subseteq ClientAddrs
    /\ Len(state) <= 1
    /\ Len(host) <= 1
    /\ posted \in 0..MaxEvents


\* The actor on an open channel: besides the listeners and readers, any
\* holder of a Sender may post any event that carries no stream.
AnyEvents ==
    {ClientClosed(a) : a \in ClientAddrs} \cup {HostClosed(a) : a \in HostAddrs}
    \cup {ClientInput(a, m) : a \in ClientAddrs, m \in ClientFrames}
    \cup {HostUpdate(a, f) : a \in HostAddrs, f \in {g \in HostFrames : g.type = "Update"}}
    \cup {HostChangeState(a, f) : a \in HostAddrs,
                                  f \in {g \in HostFrames : g.type = "ChangeState"}}

post(e) ==
    /\ HasRoom
    /\ posted < MaxEvents
    /\ channel' = Append(channel, e)
    /\ posted' = posted + 1
    /\ UNCHANGED <<netVars, stopped, loginRead, actorVars, clientLink, hostLink, log, histVars>>

ActorNext ==
    \/ Next
    \/ \E e \in AnyEvents : post(e)

ActorSpec == Init /\ [][ActorNext]_vars

\* main_task is scheduled whenever an event waits in the channel
FairSpec == Spec /\ WF_vars(main_task)

\* The tasks that hold a Sender of the channel: main_task owns channel_tx
\* until it returns, each listener and each running reader owns a clone.
Senders ==
    {<<"main_task", 0>>}
    \cup (IF stopped THEN {}
          ELSE {<<"client_listen", 0>>, <<"host_listen", 0>>}
               \cup {<<"websocket_listen", a>> : a \in {c \in ClientAddrs :
                                                          clientReader[c] = "running"}}
               \cup {<<"tcp_listen", a>> : a \in {h \in HostAddrs : hostReader[h] = "running"}})

\* channel_rx.recv() returns None, and main_task breaks out of its loop,
\* when the channel is empty and no Sender is left
recv_returns_None == channel = <<>> /\ Senders = {}

\* every listener and reader task is stopped; its Sender is dropped with it
senders_dropped ==
    /\ ~stopped
    /\ stopped' = TRUE
    /\ UNCHANGED <<netVars, loginRead, actorVars, channel, clientLink, hostLink, posted, log,
                   histVars>>

ShutdownNext ==
    \/ Next
    \/ senders_dropped

\* The actor while the other tasks may be stopped from outside.
ShutdownSpec == Init /\ [][ShutdownNext]_vars

HandshakeNext ==
    \/ Next
    \/ \E a \in ClientAddrs : client_listen_silent(a)
    \/ \E a \in ClientAddrs : upgrade_request(a)

\* The actor with peers that open a connection and delay their upgrade
\* request.
HandshakeSpec == Init /\ [][HandshakeNext]_vars

\* ============================================ networking.rs and messages.rs
\* The listeners, the login loop and the readers of networking.rs, with the
\* parsers of messages.rs.  They post their events to `netPosted`.

\* ------------------------------------------------- serde_json values
\* a field of a JSON object: missing (null), a string, an integer (an i64,
\* kept as its upper and its lower 32 bits, each a signed 32-bit number) or
\* a value of another kind
JNull      == [k |-> "null"]
JStr(s)    == [k |-> "str", v |-> s]
JInt(h, l) == [k |-> "int", hi |-> h, lo |-> l]
JOther     == [k |-> "other"]

Json(t, n, r, i, c) == [type |-> t, name |-> n, reason |-> r, state_id |-> i, content |-> c]

\* get_string: Some only for a field that holds a string
get_string(json, key) ==
    IF json[key].k = "null" THEN <<>>
    ELSE IF json[key].k # "str" THEN <<>>
    ELSE <<json[key].v>>

\* get_i32: Some only for a field that holds an integer; `value_i64 as i32`
\* keeps the lower 32 bits
get_i32(json, key) ==
    IF json[key].k = "null" THEN <<>>
    ELSE IF json[key].k # "int" THEN <<>>
    ELSE <<json[key].lo>>

\* a wire string: whether serde_json::from_str accepts it, and its fields
WireStr(valid, json) == [valid |-> valid, json |-> json]

\* parse_client_msg: Option<ClientMessage>
parse_client_msg(msg_str) ==
    IF ~msg_str.valid THEN <<>>
    ELSE LET json == msg_str.json
             type_str == get_string(json, "type")
         IN IF type_str = <<>> THEN <<>>
            ELSE IF type_str[1] = "ClientLogin" THEN
                IF get_string(json, "name") = <<>> THEN <<>>
                ELSE <<[type |-> "ClientLogin", name |-> get_string(json, "name")[1]]>>
            ELSE IF type_str[1] = "Disconnecting" THEN
                IF get_string(json, "reason") = <<>> THEN <<>>
                ELSE <<[type |-> "Disconnect", reason |-> get_string(json, "reason")[1]]>>
            ELSE IF type_str[1] = "Input" THEN
                IF get_i32(json, "state_id") = <<>> THEN <<>>
                ELSE IF get_string(json, "content") = <<>> THEN <<>>
                ELSE <<[type |-> "Input", state_id |-> get_i32(json, "state_id")[1],
                        content |-> get_string(json, "content")[1]]>>
            ELSE <<>>

\* parse_host_msg: Option<HostMessage>
parse_host_msg(msg_str) ==
    IF ~msg_str.valid THEN <<>>
    ELSE LET json == msg_str.json
             type_str == get_string(json, "type")
         IN IF type_str = <<>> THEN <<>>
            ELSE IF type_str[1] = "Disconnecting" THEN
                IF get_string(json, "reason") = <<>> THEN <<>>
                ELSE <<[type |-> "Disconnect", reason |-> get_string(json, "reason")[1]]>>
            ELSE IF type_str[1] \in {"Update", "ChangeState"} THEN
                IF get_i32(json, "state_id") = <<>> THEN <<>>
                ELSE IF get_string(json, "content") = <<>> THEN <<>>
                ELSE <<[type |-> type_str[1], state_id |-> get_i32(json, "state_id")[1],
                        content |-> get_string(json, "content")[1]]>>
            ELSE <<>>

\* ------------------------------------------------- what a read returns
NotJson        == WireStr(FALSE, Json(JNull, JNull, JNull, JNull, JNull))
NoType         == WireStr(TRUE, Json(JNull, JNull, JNull, JNull, JStr("x")))
UnknownType    == WireStr(TRUE, Json(JStr("Bogus"), JNull, JNull, JNull, JNull))
InputNoContent == WireStr(TRUE, Json(JStr("Input"), JNull, JNull, JInt(0, 1), JNull))
InputBadId     == WireStr(TRUE, Json(JStr("Input"), JNull, JNull, JStr("1"), JStr("x")))
UpdateBadText  == WireStr(TRUE, Json(JStr("Update"), JNull, JNull, JInt(0, 1), JOther))
LoginStr       == WireStr(TRUE, Json(JStr("ClientLogin"), JStr("n"), JNull, JNull, JNull))
DisconnectStr  == WireStr(TRUE, Json(JStr("Disconnecting"), JNull, JStr("bye"), JNull, JNull))
InputStr       == WireStr(TRUE, Json(JStr("Input"), JNull, JNull, JInt(0, 1), JStr("x")))
\* an Input whose state_id is 2^32 + 1
InputBigId     == WireStr(TRUE, Json(JStr("Input"), JNull, JNull, JInt(1, 1), JStr("x")))
UpdateStr      == WireStr(TRUE, Json(JStr("Update"), JNull, JNull, JInt(0, 1), JStr("x")))
ChangeStateStr == WireStr(TRUE, Json(JStr("ChangeState"), JNull, JNull, JInt(0, 1), JStr("x")))

MalformedClientStrs == {NotJson, NoType, UnknownType, InputNoContent, InputBadId}
MalformedHostStrs   == {NotJson, NoType, UnknownType, UpdateBadText}

\* reader.next().await of a websocket: None, Some(Err) or Some(Ok(msg))
WsNone       == [res |-> "None"]
WsErr        == [res |-> "Err"]
WsOk(txt, s) == [res |-> "Ok", is_text |-> txt, str |-> s]
ClientReads ==
    {WsNone, WsErr, WsOk(FALSE, NotJson)}
    \cup {WsOk(TRUE, s) : s \in MalformedClientStrs
                                 \cup {LoginStr, DisconnectStr, InputStr, InputBigId}}

\* read_u32 and read_exact of a host socket: an error of kind ConnectionReset
\* or of another kind (UnexpectedEof is what both return at the end of the
\* stream), or the bytes of one frame, which may be no UTF-8
TcpErr(kind)   == [res |-> "Err", kind |-> kind]
TcpOk(utf8, s) == [res |-> "Ok", utf8 |-> utf8, str |-> s]
HostReads ==
    {TcpErr("ConnectionReset"), TcpErr("UnexpectedEof"), TcpOk(FALSE, NotJson)}
    \cup {TcpOk(TRUE, s) : s \in MalformedHostStrs \cup {DisconnectStr, UpdateStr, ChangeStateStr}}

\* variant: a text that does not parse ends the stream
client_get_next_json_strict(r) ==
    IF r.res = "None" THEN [ret |-> "None"]
    ELSE IF r.res = "Err" THEN [ret |-> "continue"]
    ELSE IF ~r.is_text THEN [ret |-> "continue"]
    ELSE IF parse_client_msg(r.str) = <<>> THEN [ret |-> "None"]
    ELSE [ret |-> "Some", msg |-> parse_client_msg(r.str)[1]]

\* one pass of the loop of client_get_next_json: return None, return
\* Some(parsed), or `continue` with the next read
client_get_next_json(r) ==
    IF r.res = "None" THEN [ret |-> "None"]
    ELSE IF r.res = "Err" THEN [ret |-> "continue"]
    ELSE IF ~r.is_text THEN [ret |-> "continue"]
    ELSE IF parse_client_msg(r.str) = <<>> THEN [ret |-> "continue"]
    ELSE [ret |-> "Some", msg |-> parse_client_msg(r.str)[1]]

\* one pass of the loop of host_get_next_json
host_get_next_json(r) ==
    IF r.res = "Err" THEN
        IF r.kind = "ConnectionReset" THEN [ret |-> "None"] ELSE [ret |-> "continue"]
    ELSE IF ~r.utf8 THEN [ret |-> "continue"]
    ELSE IF parse_host_msg(r.str) = <<>> THEN [ret |-> "continue"]
    ELSE [ret |-> "Some", msg |-> parse_host_msg(r.str)[1]]

\* ------------------------------------------------- events of networking.rs
NetClientConnected(a, n)       == [type |-> "ClientConnected", address |-> a, name |-> n]
ClientCloseConnection(a, r)    == [type |-> "ClientCloseConnection", address |-> a, reason |-> r]
NetClientInput(a, c)           == [type |-> "ClientInput", address |-> a, content |-> c]
NetHostConnected(a)            == [type |-> "HostConnected", address |-> a]
HostCloseConnection(a, r)      == [type |-> "HostCloseConnection", address |-> a, reason |-> r]
NetHostUpdate(a, c)            == [type |-> "HostUpdate", address |-> a, content |-> c]
NetHostChangeState(a, c)       == [type |-> "HostChangeState", address |-> a, content |-> c]

\* the read of this step: one more read, by the connection a, returning r
Reads(a, r) ==
    /\ netReads < MaxReads
    /\ netReads' = netReads + 1
    /\ netLast' = [address |-> a, r |-> r]

\* websockets::listen: accept the next client and run client_connecting for
\* it inline; a failed TLS accept or websocket handshake drops the stream
websockets_listen(a) ==
    /\ netListen = <<>>
    /\ netPhase[a] = "idle"
    /\ \E ok \in BOOLEAN :
          IF ok THEN /\ netPhase' = [netPhase EXCEPT ![a] = "connecting"]
                     /\ netListen' = <<a>>
                ELSE /\ netPhase' = [netPhase EXCEPT ![a] = "dropped"]
                     /\ netListen' = netListen
    /\ UNCHANGED <<netPosted, netClosed, netReads, netLast, mainVars>>

\* variant: any message other than ClientLogin closes the connection
client_connecting_match_strict(a, g) ==
    IF g.ret = "None" THEN
        /\ netClosed' = [netClosed EXCEPT ![a] = <<DISCONNECT_REASON_CLI_CLOSED_FORCEFULLY>>]
        /\ netPhase' = [netPhase EXCEPT ![a] = "closed"]
        /\ netListen' = <<>>
        /\ netPosted' = netPosted
    ELSE IF g.ret = "continue" THEN
        UNCHANGED <<netClosed, netPhase, netListen, netPosted>>
    ELSE IF g.msg.type = "ClientLogin" THEN
        /\ netPosted' = Append(netPosted, NetClientConnected(a, g.msg.name))
        /\ netPhase' = [netPhase EXCEPT ![a] = "reading"]
        /\ netListen' = <<>>
        /\ netClosed' = netClosed
    ELSE
        /\ netClosed' = [netClosed EXCEPT ![a] = <<DISCONNECT_REASON_CLI_CLOSED_GRACEFULLY>>]
        /\ netPhase' = [netPhase EXCEPT ![a] = "closed"]
        /\ netListen' = <<>>
        /\ netPosted' = netPosted

\* client_connecting, the match on what client_get_next_json returned
client_connecting_match(a, g) ==
    IF g.ret = "None" THEN
        /\ netClosed' = [netClosed EXCEPT ![a] = <<DISCONNECT_REASON_CLI_CLOSED_FORCEFULLY>>]
        /\ netPhase' = [netPhase EXCEPT ![a] = "closed"]
        /\ netListen' = <<>>
        /\ netPosted' = netPosted
    ELSE IF g.ret = "continue" THEN
        UNCHANGED <<netClosed, netPhase, netListen, netPosted>>
    ELSE IF g.msg.type = "ClientLogin" THEN
        /\ netPosted' = Append(netPosted, NetClientConnected(a, g.msg.name))
        /\ netPhase' = [netPhase EXCEPT ![a] = "reading"]
        /\ netListen' = <<>>
        /\ netClosed' = netClosed
    ELSE IF g.msg.type = "Disconnect" THEN
        /\ netClosed' = [netClosed EXCEPT ![a] = <<DISCONNECT_REASON_CLI_CLOSED_GRACEFULLY>>]
        /\ netPhase' = [netPhase EXCEPT ![a] = "closed"]
        /\ netListen' = <<>>
        /\ netPosted' = netPosted
    ELSE
        UNCHANGED <<netClosed, netPhase, netListen, netPosted>>

\* client_connecting, one pass of the login loop
client_connecting(a) ==
    /\ netListen = <<a>>
    /\ netPhase[a] = "connecting"
    /\ \E r \in ClientReads :
          /\ Reads(a, r)
          /\ client_connecting_match(a, client_get_next_json(r))
    /\ UNCHANGED mainVars

\* variant: a ClientLogin of a logged-in client is dropped like a malformed
\* frame
client_socket_reader_match_lenient(a, g) ==
    IF g.ret = "None" THEN
        /\ netPosted' = Append(netPosted, ClientCloseConnection(a,
                                   DISCONNECT_REASON_CLI_CLOSED_FORCEFULLY))
        /\ netPhase' = [netPhase EXCEPT ![a] = "returned"]
    ELSE IF g.ret = "continue" \/ g.msg.type = "ClientLogin" THEN
        UNCHANGED <<netPosted, netPhase>>
    ELSE IF g.msg.type = "Disconnect" THEN
        /\ netPosted' = Append(netPosted, ClientCloseConnection(a,
                                   DISCONNECT_REASON_CLI_CLOSED_GRACEFULLY))
        /\ netPhase' = [netPhase EXCEPT ![a] = "returned"]
    ELSE
        /\ netPosted' = Append(netPosted, NetClientInput(a, g.msg.content))
        /\ netPhase' = netPhase

\* websockets::client_socket_reader, the match on what client_get_next_json
\* returned
client_socket_reader_match(a, g) ==
    IF g.ret = "None" THEN
        /\ netPosted' = Append(netPosted, ClientCloseConnection(a,
                                   DISCONNECT_REASON_CLI_CLOSED_FORCEFULLY))
        /\ netPhase' = [netPhase EXCEPT ![a] = "returned"]
    ELSE IF g.ret = "continue" THEN
        UNCHANGED <<netPosted, netPhase>>
    ELSE IF g.msg.type = "ClientLogin" THEN
        /\ netPosted' = Append(netPosted, ClientCloseConnection(a, DISCONNECT_REASON_VIOLATION))
        /\ netPhase' = [netPhase EXCEPT ![a] = "returned"]
    ELSE IF g.msg.type = "Disconnect" THEN
        /\ netPosted' = Append(netPosted, ClientCloseConnection(a,
                                   DISCONNECT_REASON_CLI_CLOSED_GRACEFULLY))
        /\ netPhase' = [netPhase EXCEPT ![a] = "returned"]
    ELSE
        /\ netPosted' = Append(netPosted, NetClientInput(a, g.msg.content))
        /\ netPhase' = netPhase

\* websockets::client_socket_reader, one pass of its loop; it reads the
\* half that the ClientConnected event carried
websockets_client_socket_reader(a) ==
    /\ netPhase[a] = "reading"
    /\ \E r \in ClientReads :
          /\ Reads(a, r)
          /\ client_socket_reader_match(a, client_get_next_json(r))
    /\ UNCHANGED <<netListen, netClosed, mainVars>>

\* tcp_sockets::listen: accept the next host, post HostConnected
tcp_sockets_listen(a) ==
    /\ netPhase[a] = "idle"
    /\ netPosted' = Append(netPosted, NetHostConnected(a))
    /\ netPhase' = [netPhase EXCEPT ![a] = "reading"]
    /\ UNCHANGED <<netListen, netClosed, netReads, netLast, mainVars>>

\* tcp_sockets::host_socket_reader, the match on what host_get_next_json
\* returned
host_socket_reader_match(a, g) ==
    IF g.ret = "None" THEN
        /\ netPosted' = Append(netPosted, HostCloseConnection(a,
                                   DISCONNECT_REASON_HOST_CLOSED_FORCEFULLY))
        /\ netPhase' = [netPhase EXCEPT ![a] = "returned"]
    ELSE IF g.ret = "continue" THEN
        UNCHANGED <<netPosted, netPhase>>
    ELSE IF g.msg.type = "Disconnect" THEN
        /\ netPosted' = Append(netPosted, HostCloseConnection(a,
                                   DISCONNECT_REASON_HOST_CLOSED_GRACEFULLY))
        /\ netPhase' = [netPhase EXCEPT ![a] = "returned"]
    ELSE IF g.msg.type = "Update" THEN
        /\ netPosted' = Append(netPosted, NetHostUpdate(a, g.msg.content))
        /\ netPhase' = netPhase
    ELSE
        /\ netPosted' = Append(netPosted, NetHostChangeState(a, g.msg.content))
        /\ netPhase' = netPhase

\* tcp_sockets::host_socket_reader, one pass of its loop; it reads the
\* stream that the HostConnected event carried
tcp_sockets_host_socket_reader(a) ==
    /\ netPhase[a] = "reading"
    /\ \E r \in HostReads :
          /\ Reads(a, r)
          /\ host_socket_reader_match(a, host_get_next_json(r))
    /\ UNCHANGED <<netListen, netClosed, mainVars>>

NetNext ==
    \/ \E a \in ClientAddrs : websockets_listen(a)
    \/ \E a \in ClientAddrs : client_connecting(a)
    \/ \E a \in ClientAddrs : websockets_client_socket_reader(a)
    \/ \E a \in HostAddrs : tcp_sockets_listen(a)
    \/ \E a \in HostAddrs : tcp_sockets_host_socket_reader(a)

NetSpec == Init /\ [][NetNext]_vars

\* ================================================================ claims
\* main_task receives an event of kind t in this step
Handles(t) ==
    /\ channel # <<>>
    /\ Head(channel).type = t
    /\ channel' = Tail(channel)

OpenHostWrites == {a \in HostAddrs : hostWrite[a] = "open"}

C2_SupersededHostDisconnected ==
    [][(Handles("HostConnected") /\ host # <<>>) =>
          LET a == host[1]
              b == Head(channel).address
          IN /\ hostSent'[a] = Append(hostSent[a],
                     encode_backend_msg_Disconnect("superseded by another host"))
             /\ hostWrite'[a] = "closed"
             /\ host' = <<b>>]_vars

\* C3: a client whose ClientConnected is handled after ChangeState X was
\* applied last is sent X as its first message, before any broadcast.
C3_LateJoinSnapshot ==
    \A a \in ClientAddrs :
        snapshot[a] # <<>> =>
            /\ a \in clients => clientSent[a] # <<>>
            /\ clientSent[a] # <<>> =>
                  /\ Head(clientSent[a]) = snapshot[a][1]
                  /\ Head(clientSent[a]).type = "ChangeState"

C3_Witness ==
    \E a \in clients :
        /\ snapshot[a] # <<>>
        /\ Len(clientSent[a]) >= 2
        /\ clientSent[a][2] # clientSent[a][1]

\* C4: a client whose ClientConnected is handled before any HostChangeState
\* was applied is sent no initial state message.
C4_NoInitialStateBeforeChange ==
    [][(Handles("ClientConnected") /\ lastApplied = <<>>) => clientSent' = clientSent]_vars

\* C5: a host close event for an address that is not the current host's
\* (or with the slot empty) changes nothing and closes nothing.
C5_StaleHostCloseNoOp ==
    [][(Handles("HostClosed") /\ (host = <<>> \/ host[1] # Head(channel).address)) =>
          UNCHANGED actorVars]_vars

C5_Witness ==
    /\ log.type = "HostClosed"
    /\ log.outcome = "ignored"
    /\ host # <<>>
    /\ host[1] # log.address

\* a broadcast is handled in this step: an Update or a ChangeState of the
\* current host
Broadcasts ==
    /\ Handles("HostUpdate") \/ Handles("HostChangeState")
    /\ host # <<>>
    /\ host[1] = Head(channel).address

\* C6: in one broadcast every registered client whose send does not fail is
\* sent the message, whichever sends to other clients fail.
C6_BroadcastIsolation ==
    [][Broadcasts =>
          \A c \in clients :
              clientLink'[c] = "up" =>
                  clientSent'[c] = Append(clientSent[c], to_string(Head(channel).msg))]_vars

C6_Witness ==
    /\ log.outcome = "broadcast"
    /\ \E c, d \in clients :
          /\ clientLink[c] = "down"
          /\ Len(clientSent[c]) = 1
          /\ clientLink[d] = "up"
          /\ Len(clientSent[d]) = 2

\* C7: a registered client to which a send failed during a broadcast is
\* subsequently removed from the registry.
C7_FailedClientRemoved ==
    \A c \in ClientAddrs :
        (c \in clients /\ clientLink[c] = "down" /\ log.outcome = "broadcast")
            ~> (c \notin clients)

\* C8: a client close event for an address that is not registered changes
\* nothing, and after any client close event the address is not registered,
\* so the same event handled again is that no-op.
C8_UnknownClientCloseNoOp ==
    [][Handles("ClientClosed") =>
          LET a == Head(channel).address
          IN /\ a \notin clients => UNCHANGED actorVars
             /\ a \notin clients']_vars

C8_Witness ==
    /\ log.type = "ClientClosed"
    /\ log.outcome = "not_in_list"
    /\ clientWrite[log.address] = "closed"

\* C9: a text input of a registered client handled while a host is present
\* sends the host exactly one Input message with the fields input, name and
\* address of that client.
C9_InputForwardedWithIdentity ==
    [][(/\ Handles("ClientInput")
        /\ Head(channel).address \in clients
        /\ Head(channel).msg.is_text
        /\ host # <<>>
        /\ hostLink'[host[1]] = "up") =>
          LET e == Head(channel)
              h == host[1]
          IN /\ Len(hostSent'[h]) = Len(hostSent[h]) + 1
             /\ LET m == hostSent'[h][Len(hostSent'[h])]
                IN /\ m.type = "Input"
                   /\ {"input", "name", "address"} \subseteq DOMAIN m
                   /\ m.input = e.msg.text.content
                   /\ m.address = e.address]_vars

\* C10: a HostUpdate or HostChangeState whose address is not the current
\* host's changes neither the state nor what any client was sent, and the
\* state is the payload of the last ChangeState accepted from a current host.
C10_StaleHostIgnored ==
    /\ [][((Handles("HostUpdate") \/ Handles("HostChangeState"))
            /\ (host = <<>> \/ host[1] # Head(channel).address)) =>
              (state' = state /\ clientSent' = clientSent)]_vars
    /\ [](lastApplied # <<>> => state = lastApplied)

C10_Witness ==
    /\ log.type = "HostChangeState"
    /\ log.outcome = "not_current"
    /\ host # <<>>
    /\ lastApplied # <<>>
    /\ state = lastApplied


\* C11: a HostChangeState X of the current host replaces the state by X and
\* sends X to every client registered at that moment (whose send succeeds);
\* the registry is left as it was.
C11_ChangeStateOverwrites ==
    [][(/\ Handles("HostChangeState")
        /\ host # <<>>
        /\ host[1] = Head(channel).address) =>
          LET x == to_string(Head(channel).msg)
          IN /\ state' = <<x>>
             /\ clients' = clients
             /\ \A c \in clients :
                   clientLink'[c] = "up" => clientSent'[c] = Append(clientSent[c], x)]_vars

C11_Witness ==
    /\ log.type = "HostChangeState"
    /\ log.outcome = "broadcast"
    /\ \E c \in clients :
          /\ Len(clientSent[c]) = 2
          /\ clientSent[c][1].type = "ChangeState"
          /\ clientSent[c][2] = state[1]
          /\ clientSent[c][1] # state[1]


\* C12: a client enters the registry only after a ClientLogin of it was read.
C12_RegisteredOnlyAfterLogin ==
    [][\A a \in ClientAddrs : (a \in clients' /\ a \notin clients) => a \in loginRead]_vars


\* C13: handling ClientConnected for a client (name n, address a) while a
\* host is in the slot sends the host a ClientConnected message with the
\* fields name and address of that client.
C13_HostNotifiedOfConnect ==
    [][(/\ Handles("ClientConnected")
        /\ Head(channel).address \in clients'
        /\ host # <<>>
        /\ hostLink[host[1]] = "up") =>
          LET h == host[1]
          IN /\ Len(hostSent'[h]) = Len(hostSent[h]) + 1
             /\ LET m == hostSent'[h][Len(hostSent'[h])]
                IN /\ m.type = "ClientConnected"
                   /\ {"name", "address"} \subseteq DOMAIN m
                   /\ m.address = Head(channel).address]_vars

\* C14: a client close event that removes a registered client (name n,
\* address a, reason r) while a host is in the slot sends the host a
\* ClientDisconnected message with name, address and reason, and closes the
\* removed client's connection.
C14_HostNotifiedOfDisconnect ==
    [][(/\ Handles("ClientClosed")
        /\ Head(channel).address \in clients
        /\ host # <<>>
        /\ hostLink[host[1]] = "up") =>
          LET h == host[1]
              a == Head(channel).address
          IN /\ clientWrite'[a] = "closed"
             /\ Len(hostSent'[h]) = Len(hostSent[h]) + 1
             /\ LET m == hostSent'[h][Len(hostSent'[h])]
                IN /\ m.type = "ClientDisconnected"
                   /\ {"name", "address", "reason"} \subseteq DOMAIN m
                   /\ m.address = a]_vars


\* the connections whose transport fails in this step, and the address of a
\* close event received in it
FailedClients ==
    {a \in ClientAddrs : clientLink[a] # "down" /\ clientLink'[a] = "down"}
    \cup {a \in ClientAddrs : Handles("ClientClosed") /\ Head(channel).address = a}
FailedHosts ==
    {a \in HostAddrs : hostLink[a] # "down" /\ hostLink'[a] = "down"}
    \cup {a \in HostAddrs : Handles("HostClosed") /\ Head(channel).address = a}

\* C15: a step in which a connection's transport fails (failed send or
\* handshake, reset or ended stream), or in which its close event is
\* handled, closes no other connection: every other registered client stays
\* registered with its write half as it was, and the host, unless it is the
\* failing connection, stays in the slot with its write half as it was; and
\* the actor can always receive the event at the head of the channel.
C15_FailureClosesOnlyItsConnection ==
    /\ [][(FailedClients \cup FailedHosts # {}) =>
            /\ \A c \in clients \ FailedClients :
                  c \in clients' /\ clientWrite'[c] = clientWrite[c]
            /\ (host # <<>> /\ host[1] \notin FailedHosts) =>
                  host' = host /\ hostWrite'[host[1]] = hostWrite[host[1]]]_vars
    /\ [](channel # <<>> => ENABLED main_task)

C15_Witness ==
    /\ log.type = "HostConnected"
    /\ log.outcome = "initial_send_failed"
    /\ host # <<>>
    /\ host[1] # log.address
    /\ hostWrite[host[1]] = "open"
    /\ hostLink[log.address] = "down"
    /\ clients # {}


\* C16: the actor never waits on its own channel: a step of main_task only
\* takes the head of the channel and puts nothing into it, and while the
\* channel is full, with producers suspended, main_task can take a step.
C16_ActorNeverBlockedOnOwnQueue ==
    /\ [][main_task => channel' = Tail(channel)]_vars
    /\ [](~HasRoom => ENABLED main_task)

\* The channel is full, its head is a ClientInput whose forwarding will fail
\* (the host's connection is reset) and the sending client's reader is
\* suspended on the full channel.
C16_Witness ==
    /\ ~HasRoom
    /\ Head(channel).type = "ClientInput"
    /\ Head(channel).address \in clients
    /\ Head(channel).msg.is_text
    /\ host # <<>>
    /\ hostLink[host[1]] = "down"
    /\ posted < MaxEvents
    /\ clientReader[Head(channel).address] = "running"


\* C17: a HostUpdate of the current host is sent to every client registered
\* at that moment (whose send succeeds) and leaves the state, the registry
\* and the host slot as they were; a client registered later is sent no
\* update on registration.
C17_UpdateBroadcastKeepsState ==
    [][/\ (/\ Handles("HostUpdate")
           /\ host # <<>>
           /\ host[1] = Head(channel).address) =>
             LET x == to_string(Head(channel).msg)
             IN /\ state' = state
                /\ clients' = clients
                /\ host' = host
                /\ \A c \in clients :
                      clientLink'[c] = "up" => clientSent'[c] = Append(clientSent[c], x)
       /\ \A a \in clients' \ clients :
             \A i \in 1..Len(clientSent'[a]) : clientSent'[a][i].type # "Update"]_vars

C17_Witness ==
    /\ log.type = "ClientConnected"
    /\ log.outcome = "registered"
    /\ log.address \in clients
    /\ \A i \in 1..Len(clientSent[log.address]) : clientSent[log.address][i].type # "Update"
    /\ \E c \in clients \ {log.address} :
          /\ clientSent[c] # <<>>
          /\ clientSent[c][Len(clientSent[c])].type = "Update"
    /\ state = <<DUMMY>>


\* C18: when forwarding the input of a registered client to the host in the
\* slot fails, the handler emits a close event for that host's address.
C18_FailedForwardClosesHost ==
    [][(/\ Handles("ClientInput")
        /\ Head(channel).address \in clients
        /\ Head(channel).msg.is_text
        /\ host # <<>>
        /\ hostLink'[host[1]] # "up") =>
          /\ channel' # <<>>
          /\ channel'[Len(channel')] = HostClosed(host[1])]_vars

\* C19: a ClientInput whose address is not registered, or that arrives
\* while the slot is empty, is taken from the channel and changes nothing
\* else: nothing is sent, nothing is kept for later; and a host that
\* connects is sent no input on installation.
C19_InputDroppedNotReplayed ==
    [][/\ (/\ Handles("ClientInput")
           /\ (Head(channel).address \notin clients \/ host = <<>>)) =>
             UNCHANGED <<actorVars, clientLink, hostLink>>
       /\ Handles("HostConnected") =>
             LET a == Head(channel).address
             IN \A i \in 1..Len(hostSent'[a]) : hostSent'[a][i].type # "Input"]_vars

C19_Witness ==
    /\ log.type = "ClientInput"
    /\ log.outcome = "no_host"
    /\ log.address \in clients
    /\ host = <<>>
    /\ \A h \in HostAddrs : hostSent[h] = <<>>
    /\ channel # <<>>
    /\ Head(channel).type = "HostConnected"

\* C20: when a ClientConnected is handled while a state is stored and the
\* new client is sent nothing (the handshake or the sending of the state
\* failed), the client is not registered, its connection is closed and no
\* reader runs for it.
C20_FailedInitialSendNotRegistered ==
    [][(/\ Handles("ClientConnected")
        /\ state # <<>>
        /\ clientSent'[Head(channel).address] = clientSent[Head(channel).address]) =>
          LET a == Head(channel).address
          IN /\ a \notin clients'
             /\ clients' = clients
             /\ clientWrite'[a] = "closed"
             /\ clientReader'[a] = "none"]_vars

C20_Witness ==
    /\ log.type = "ClientConnected"
    /\ log.outcome = "initial_send_failed"
    /\ state # <<>>
    /\ log.address \notin clients
    /\ clientWrite[log.address] = "closed"
    /\ clientReader[log.address] = "none"
    /\ clientSent[log.address] = <<>>


\* C21: when the stream of a registered client has ended while its reader
\* runs, the reader terminates and the client leaves the registry.
C21_EndedClientStreamRemoved ==
    \A a \in ClientAddrs :
        (a \in clients /\ clientReader[a] = "running" /\ clientLink[a] = "down")
            ~> (clientReader[a] = "done" /\ a \notin clients)


\* the connection a makes a read in this step
ReadBy(a) == netReads' = netReads + 1 /\ netLast'.address = a

\* the events of connection a among those posted
PostedBy(a, posts) == SelectSeq(posts, LAMBDA e : e.address = a)

\* C22: when a read of a host's reader fails because the stream has ended
\* (reset by the peer, or ended otherwise), the reader posts a host close
\* event with the forced reason and terminates.
C22_EndedHostStreamClosed ==
    [][\A a \in HostAddrs :
          (netPhase[a] = "reading" /\ ReadBy(a) /\ netLast'.r.res = "Err") =>
             /\ netPosted' = Append(netPosted, HostCloseConnection(a,
                                        DISCONNECT_REASON_HOST_CLOSED_FORCEFULLY))
             /\ netPhase'[a] = "returned"]_vars

\* C23: when the reader of a logged-in client reads a ClientLogin, it posts
\* a client close event with the protocol-violation reason and returns; a
\* reader that has returned posts nothing more for its connection.
C23_SecondLoginIsViolation ==
    [][\A a \in ClientAddrs :
          /\ (netPhase[a] = "reading" /\ ReadBy(a) /\ netLast'.r = WsOk(TRUE, LoginStr)) =>
                /\ netPosted' = Append(netPosted,
                                       ClientCloseConnection(a, DISCONNECT_REASON_VIOLATION))
                /\ netPhase'[a] = "returned"
          /\ netPhase[a] = "returned" =>
                /\ netPhase'[a] = "returned"
                /\ PostedBy(a, netPosted') = PostedBy(a, netPosted)]_vars

C23_Witness ==
    \E a \in ClientAddrs :
        /\ netPhase[a] = "returned"
        /\ Len(netPosted) = 3
        /\ netPosted[1].type = "ClientConnected"
        /\ netPosted[1].address = a
        /\ netPosted[2] = ClientCloseConnection(a, DISCONNECT_REASON_VIOLATION)
        /\ netPosted[3].address # a

\* C24: a host the actor closes is told the reason of the cause: a
\* superseded host the superseded reason, a host closed for another cause
\* the graceful, the forced or the send-failure reason.
C24_CloseReasonIdentifiesCause ==
    [][\A h \in HostAddrs :
          (hostWrite[h] = "open" /\ hostWrite'[h] = "closed" /\ hostLink'[h] = "up") =>
             /\ hostSent'[h] # <<>>
             /\ LET m == hostSent'[h][Len(hostSent'[h])]
                IN /\ m.type = "Disconnecting"
                   /\ "reason" \in DOMAIN m
                   /\ IF Handles("HostConnected")
                      THEN m.reason = DISCONNECT_REASON_HOST_OTHER
                      ELSE m.reason \in {DISCONNECT_REASON_HOST_CLOSED_GRACEFULLY,
                                         DISCONNECT_REASON_HOST_CLOSED_FORCEFULLY,
                                         DISCONNECT_REASON_SEND_FAILED}]_vars


\* C25: once every listener and reader has dropped its Sender and the
\* events already queued are drained, recv returns None and the receive
\* loop of the actor ends.
C25_ClosedQueueEndsLoop ==
    [](stopped /\ channel = <<>> => recv_returns_None)


\* C26: every event posted is applied exactly once: a post appends one
\* event to the channel, and only while the channel has room; every other
\* change of the channel is main_task taking its head and handling it; no
\* event is dropped, duplicated or put back.
C26_EachEventAppliedOnce ==
    /\ [](Len(channel) <= CHANNEL_SIZE)
    /\ [][/\ posted' # posted =>
               /\ HasRoom
               /\ posted' = posted + 1
               /\ Len(channel') = Len(channel) + 1
               /\ SubSeq(channel', 1, Len(channel)) = channel
          /\ posted' = posted =>
               \/ channel' = channel
               \/ /\ channel # <<>>
                  /\ channel' = Tail(channel)
                  /\ log'.type = Head(channel).type
                  /\ log'.address = Head(channel).address]_vars

C26_Witness ==
    /\ ~HasRoom
    /\ posted < MaxEvents
    /\ posted - Len(channel) >= 2
    /\ log.type = "HostConnected"
    /\ log.outcome = "replaced"
    /\ \E a \in ClientAddrs : clientLink[a] = "idle"

\* C27: the events of one connection enter the channel at the back, in the
\* order its reader decoded them, and leave it from the front to be
\* applied, whatever the other connections post and also in a full channel.
C27_PerConnectionFifo ==
    [][\A a \in ClientAddrs \cup HostAddrs :
          LET q == PostedBy(a, channel)
              r == PostedBy(a, channel')
          IN \/ r = q
             \/ /\ posted' = posted + 1
                /\ Len(r) = Len(q) + 1
                /\ SubSeq(r, 1, Len(q)) = q
             \/ /\ q # <<>>
                /\ r = Tail(q)
                /\ log'.address = a
                /\ log'.type = Head(q).type]_vars

C27_Witness ==
    /\ ~HasRoom
    /\ \E h \in HostAddrs :
          /\ host = <<h>>
          /\ Len(PostedBy(h, channel)) >= 2
          /\ channel[1].msg # channel[2].msg
    /\ \E a \in clients : clientReader[a] = "running" /\ clientLink[a] = "up"


\* C28: the host slot changes only when a HostConnected is handled, to the
\* address of that event, and when a host close event with the address in
\* the slot is handled, to empty; no other event changes it.
C28_HostSlotTransitions ==
    [][host' # host =>
          \/ Handles("HostConnected") /\ host' = <<Head(channel).address>>
          \/ /\ Handles("HostClosed")
             /\ host = <<Head(channel).address>>
             /\ host' = <<>>]_vars

C28_Witness ==
    /\ log.type = "HostClosed"
    /\ log.outcome = "is_current"
    /\ host = <<>>
    /\ hostWrite[log.address] = "closed"
    /\ channel # <<>>
    /\ Head(channel).type = "HostConnected"
    /\ clients # {}

\* C29: a frame whose text is no JSON, has no or an unknown type, or lacks
\* a field of the right kind produces no event and closes nothing, during
\* login and after it, for clients and for hosts; a well-formed Input,
\* Update or ChangeState read by a reader produces its event whatever was
\* dropped before.
C29_MalformedFrameDropped ==
    [][/\ \A a \in ClientAddrs :
             /\ (ReadBy(a) /\ netLast'.r \in {WsOk(TRUE, s) : s \in MalformedClientStrs}) =>
                   UNCHANGED <<netPosted, netPhase, netClosed, netListen>>
             /\ (netPhase[a] = "reading" /\ ReadBy(a) /\ netLast'.r = WsOk(TRUE, InputStr)) =>
                   /\ netPosted' = Append(netPosted, NetClientInput(a, "x"))
                   /\ netPhase' = netPhase
       /\ \A a \in HostAddrs :
             /\ (ReadBy(a) /\ netLast'.r \in {TcpOk(TRUE, s) : s \in MalformedHostStrs}) =>
                   UNCHANGED <<netPosted, netPhase, netClosed, netListen>>
             /\ (ReadBy(a) /\ netLast'.r = TcpOk(TRUE, UpdateStr)) =>
                   /\ netPosted' = Append(netPosted, NetHostUpdate(a, "x"))
                   /\ netPhase' = netPhase
             /\ (ReadBy(a) /\ netLast'.r = TcpOk(TRUE, ChangeStateStr)) =>
                   /\ netPosted' = Append(netPosted, NetHostChangeState(a, "x"))
                   /\ netPhase' = netPhase]_vars

C29_Witness ==
    \E a \in ClientAddrs :
        /\ netReads = 2
        /\ netLast = [address |-> a, r |-> WsOk(TRUE, InputBadId)]
        /\ netPosted = <<NetClientConnected(a, "n")>>
        /\ netPhase[a] = "reading"
        /\ \A b \in (ClientAddrs \cup HostAddrs) \ {a} : netPhase[b] = "idle"

\* C30: an Input read by the login loop posts no event and leaves the
\* connection open and the loop waiting; a ClientLogin read by the login
\* loop, also after such an Input, posts ClientConnected.
C30_InputBeforeLoginDropped ==
    [][\A a \in ClientAddrs :
          /\ (netPhase[a] = "connecting" /\ ReadBy(a) /\ netLast'.r = WsOk(TRUE, InputStr)) =>
                /\ netPosted' = netPosted
                /\ netPhase'[a] = "connecting"
                /\ netClosed'[a] = <<>>
                /\ netListen' = <<a>>
          /\ (netPhase[a] = "connecting" /\ ReadBy(a) /\ netLast'.r = WsOk(TRUE, LoginStr)) =>
                /\ netPosted' = Append(netPosted, NetClientConnected(a, "n"))
                /\ netPhase'[a] = "reading"]_vars

C30_Witness ==
    \E a \in ClientAddrs :
        /\ netLast = [address |-> a, r |-> WsOk(TRUE, InputStr)]
        /\ netPhase[a] = "connecting"
        /\ netListen = <<a>>
        /\ netClosed[a] = <<>>
        /\ netPosted = <<>>
        /\ netReads < MaxReads

\* C31: a write half that was closed stays closed, nothing more is written
\* to it and no later event closes it again (a client close that finds the
\* entry, a host close that finds it in the slot, a HostConnected that
\* replaces it); every write half the actor still holds, in the registry or
\* in the host slot, is open.
C31_ClosedHalfNeverUsed ==
    /\ [][/\ \A a \in ClientAddrs :
               clientWrite[a] = "closed" =>
                  /\ clientWrite'[a] = "closed"
                  /\ clientSent'[a] = clientSent[a]
                  /\ ~(/\ Handles("ClientClosed")
                       /\ Head(channel).address = a
                       /\ log'.outcome = "closed")
          /\ \A h \in HostAddrs :
               hostWrite[h] = "closed" =>
                  /\ hostWrite'[h] = "closed"
                  /\ hostSent'[h] = hostSent[h]
                  /\ ~(/\ Handles("HostClosed")
                       /\ Head(channel).address = h
                       /\ log'.outcome = "is_current")
                  /\ ~(Handles("HostConnected") /\ host = <<h>>)]_vars
    /\ [](\A a \in clients : clientWrite[a] = "open")
    /\ [](host # <<>> => hostWrite[host[1]] = "open")

\* A host was replaced and shut down, and the close event its reader posted
\* afterwards was handled while its successor holds the slot.
C31_Witness ==
    /\ log.type = "HostClosed"
    /\ log.outcome = "ignored"
    /\ hostWrite[log.address] = "closed"
    /\ host # <<>>
    /\ host[1] # log.address
    /\ hostWrite[host[1]] = "open"

\* C32: the actor never waits for a peer: whenever an event is queued,
\* main_task can take its next step.
C32_ActorNeverWaitsForPeer ==
    [](channel # <<>> => ENABLED main_task)

\* C33: while a client is accepted and has not logged in yet, the listener
\* can accept any client that connects after it.
C33_PendingLoginDoesNotBlockAccept ==
    [](\A a, b \in ClientAddrs :
          (netPhase[a] = "connecting" /\ netPhase[b] = "idle") => ENABLED websockets_listen(b))

\* an i64, given as its upper and lower 32 bits, that is within the range of
\* an i32: the upper bits are the sign extension of the lower ones
FitsI32(v) == v.hi = (IF v.lo < 0 THEN -1 ELSE 0)

\* C34: for the state_id of every frame read, get_i32 returns the integer
\* when the field holds an integer within the range of an i32, and None
\* otherwise.
C34_GetI32RejectsOutOfRange ==
    [](netLast.r.res = "Ok" =>
          LET json == netLast.r.str.json
          IN get_i32(json, "state_id") =
                IF json.state_id.k = "int" /\ FitsI32(json.state_id)
                THEN <<json.state_id.lo>> ELSE <<>>)

====
